---- MODULE Spec2Model ----
(***************************************************************************)
(* Four actors (John = Roster, Brightspace = Aggregator, Admin = Registry, *)
(* Booster) of feonix-onboarding-actor.  Every actor is a tokio task that  *)
(* owns its state and the receiver of a bounded mpsc channel; handles hold *)
(* the sender.  Request/reply methods embed a oneshot sender in the        *)
(* message and await the oneshot receiver.                                 *)
(***************************************************************************)
EXTENDS Integers, Sequences, FiniteSets, TLC

\* ------------------------------------------------------------------ bounds
\* Number of handle-method calls the second caller makes in one run.
MaxCalls == 2
\* Length of the burst of calls with which the first caller fills a queue.
MaxBurst == 10

\* --------------------------------------------------------- program constants
\* mpsc::channel(8)
Capacity == 8
\* 0.0, the grade pushed by AddUnderling; grades are in tenths of a point
DefaultGrade == 0
\* 100.0, the grade written by BoostGrade
BoostedGrade == 1000
\* 60.0, the passing threshold of CountNumberFailingStudents
PassingGrade == 600

Actors == {"John", "Brightspace", "Admin", "Booster"}
\* External tasks that call handle methods concurrently: "main" runs the
\* script of the workload, "other" calls methods of its menu in any order.
Callers == {"main", "other"}
\* Tasks that can await a oneshot receiver: the callers and Booster's handler.
Tasks == Callers \cup {"Booster"}

\* ------------------------------------------------------------------ values
\* A String is a sequence of characters; "E2" stands for a character whose
\* UTF-8 encoding is two bytes long (any non-ASCII letter).
Ada == <<"A", " ", "L">>
Cher == <<"C">>
NonAscii == <<"E2", " ", "l">>

\* u8 length of a char in UTF-8
len_utf8(ch) == IF ch = "E2" THEN 2 ELSE 1

\* char::to_ascii_lowercase
to_ascii_lowercase_char(ch) ==
    CASE ch = "A" -> "a"
      [] ch = "L" -> "l"
      [] ch = "C" -> "c"
      [] OTHER -> ch

\* str::to_ascii_lowercase
to_ascii_lowercase(s) == [i \in 1..Len(s) |-> to_ascii_lowercase_char(s[i])]

None == [some |-> FALSE]
Some(v) == [some |-> TRUE, v |-> v]

\* str::split_once(' '): the parts before and after the first space
split_once(s) ==
    IF \E i \in 1..Len(s) : s[i] = " "
    THEN LET i == CHOOSE k \in 1..Len(s) : s[k] = " " /\ \A j \in 1..(k-1) : s[j] /= " "
         IN  Some([first |-> SubSeq(s, 1, i-1), last |-> SubSeq(s, i+1, Len(s))])
    ELSE None

\* str::get(..1): the first byte as a str, when byte 1 is a char boundary
get_to_1(s) ==
    IF Len(s) >= 1 /\ len_utf8(s[1]) = 1 THEN Some(<<s[1]>>) ELSE None

\* BrightspaceMessage::AppendStudentCareerID, the closure applied to one name:
\* None when either unwrap() panics, else the name with its career id appended.
career_id(name) ==
    LET parts == split_once(name) IN
    IF ~parts.some THEN None
    ELSE LET initial == get_to_1(parts.v.first) IN
         IF ~initial.some THEN None
         ELSE Some(name \o <<" ", "(">> \o to_ascii_lowercase(initial.v)
                        \o to_ascii_lowercase(parts.v.last) \o <<")">>)

\* iter_mut().for_each(..) over the name list: names are rewritten in order
\* until the first panic, which leaves the earlier ones rewritten.
RECURSIVE for_each_career_id(_, _)
for_each_career_id(names, i) ==
    IF i > Len(names) THEN [panicked |-> FALSE, names |-> names]
    ELSE LET r == career_id(names[i]) IN
         IF ~r.some THEN [panicked |-> TRUE, names |-> names]
         ELSE for_each_career_id([names EXCEPT ![i] = r.v], i + 1)

\* (mutant) the last occurrence is found (rposition)
position_of_last(names, name) ==
    IF \E i \in 1..Len(names) : names[i] = name
    THEN Some(CHOOSE i \in 1..Len(names) :
                 names[i] = name /\ \A j \in (i+1)..Len(names) : names[j] /= name)
    ELSE None

\* Iterator::position(|n| *n == name)
position(names, name) ==
    IF \E i \in 1..Len(names) : names[i] = name
    THEN Some(CHOOSE i \in 1..Len(names) :
                 names[i] = name /\ \A j \in 1..(i-1) : names[j] /= name)
    ELSE None

\* (mutant) a grade equal to 60.0 counts as failed
count_failed_or_equal(grades) == Cardinality({i \in 1..Len(grades) : grades[i] <= PassingGrade})

\* iter().filter(|grade| **grade < 60.0).count()
count_failed(grades) == Cardinality({i \in 1..Len(grades) : grades[i] < PassingGrade})

\* (mutant) the loop stops one entry early
RECURSIVE boost_loop_stops_early(_, _)
boost_loop_stops_early(newGrades, index) ==
    IF index + 1 >= Len(newGrades) THEN newGrades
    ELSE boost_loop_stops_early([newGrades EXCEPT ![index + 1] = BoostedGrade], index + 1)

\* Booster's loop over newGrades: every entry overwritten with 100.0
RECURSIVE boost_loop(_, _)
boost_loop(newGrades, index) ==
    IF index = Len(newGrades) THEN newGrades
    ELSE boost_loop([newGrades EXCEPT ![index + 1] = BoostedGrade], index + 1)

\* ------------------------------------------------------------------- state
VARIABLES
    queue,        \* queue[a]: the messages in a's mpsc channel, oldest first
    alive,        \* alive[a]: a's backend task runs (its Receiver exists)
    held,         \* held[a]: some handle of a exists outside the actors
    pc,           \* pc[a]: where a's backend is: "idle" (in recv) or inside a handler
    cur,          \* cur[a]: the message whose handler is suspended
    john,         \* John's fields
    brightspace,  \* Brightspace's fields
    admin,        \* Admin's fields
    booster,      \* Booster's field and the locals of its BoostGrade handler
    caller,       \* caller[c]: the handle method c is in, and what its last call
                  \* returned (ret.err: its send or its rx.await resolved to Err)
    reply,        \* reply[t]: the oneshot channel task t created for its request
    calls,        \* handle-method calls "other" has begun
    script,       \* the handle methods "main" has still to call
    workload,     \* the workload of this run
    snapshot      \* snapshot[c]: what the actor held when it handled c's forward
                  \* request, or the AppendStudentCareerID of c that panicked

vars == <<queue, alive, held, pc, cur, john, brightspace, admin, booster,
          caller, reply, calls, script, workload, snapshot>>

\* A message: its tag, its payload (the names and the grades it carries), and
\* for the record the task that sent it and the caller on whose behalf.
Msg(tag, src, cause, names, grades) ==
    [tag |-> tag, src |-> src, cause |-> cause, names |-> names, grades |-> grades]
NoMsg == Msg("none", "none", "none", <<>>, <<>>)

\* The values of the result types: (), usize, Vec<String>, Vec<f64>
Value(kind, count, names, grades) ==
    [kind |-> kind, count |-> count, names |-> names, grades |-> grades]
Unit == Value("unit", 0, <<>>, <<>>)
Usize(n) == Value("usize", n, <<>>, <<>>)
VecString(names) == Value("names", 0, names, <<>>)
VecF64(grades) == Value("grades", 0, <<>>, grades)

\* oneshot channel states
NoChannel == [st |-> "none"]
Pending == [st |-> "pending"]
Closed == [st |-> "closed"]
Sent(v) == [st |-> "sent", val |-> v]

NoSnapshot == [taken |-> FALSE]

\* ---------------------------------------------------------------- workloads
\* A workload is a program for the two callers: the handle methods "main"
\* calls, in order (its arguments are free), and the handle methods "other"
\* calls concurrently, MaxCalls times, in any order.
Repeat(op, n) == [i \in 1..n |-> op]

Script(w) ==
    CASE w = "roster" ->
           <<"report_all_students_and_grades_to_brightspace", "register_new_student",
             "register_new_student", "assign_grade_to_student", "set_brightspace",
             "report_all_students_and_grades_to_brightspace">>
      [] w = "aggregator" ->
           <<"report_all_students_and_grades_to_admin", "enter_students_into_brightspace",
             "enter_student_grades_into_brightspace", "brightspace_set_admin",
             "generate_and_append_student_career_id",
             "report_all_students_and_grades_to_admin", "get_all_student_names">>
      [] w = "chain" ->
           <<"brightspace_set_admin", "set_brightspace", "register_new_student",
             "report_all_students_and_grades_to_brightspace",
             "report_all_students_and_grades_to_admin",
             "get_all_student_names", "get_all_student_grades">>
      [] w = "registry" ->
           <<"submit_student_names", "submit_student_grades", "get_all_student_names",
             "get_all_student_grades", "count_number_of_failing_students",
             "get_all_student_names">>
      [] w = "booster" ->
           <<"boost_grades", "submit_student_grades", "booster_set_admin", "boost_grades",
             "boost_grades", "get_all_student_grades">>
      [] w = "boost" ->
           <<"submit_student_names", "submit_student_grades", "booster_set_admin",
             "boost_grades", "boost_grades", "get_all_student_grades">>
      [] w = "flood" ->
           <<"booster_set_admin", "boost_grades">>
             \o Repeat("submit_student_grades", MaxBurst)
      [] w = "shutdown" ->
           <<"set_brightspace", "brightspace_set_admin", "drop_handle", "drop_handle",
             "drop_handle">>
      [] w = "burst" ->
           Repeat("submit_student_grades", MaxBurst)
      [] w = "relay" ->
           <<"brightspace_set_admin", "set_brightspace", "booster_set_admin",
             "register_new_student", "report_all_students_and_grades_to_brightspace",
             "report_all_students_and_grades_to_admin", "boost_grades",
             "get_all_student_names">>
      [] w = "faults" ->
           <<"count_number_of_failing_students", "assign_grade_to_student",
             "enter_students_into_brightspace", "enter_student_grades_into_brightspace",
             "generate_and_append_student_career_id", "submit_student_names",
             "report_all_students_and_grades_to_admin">>

Menu(w) ==
    CASE w = "roster" ->
           {"assign_grade_to_student", "report_all_students_and_grades_to_brightspace"}
      [] w = "aggregator" ->
           {"enter_students_into_brightspace", "generate_and_append_student_career_id",
            "report_all_students_and_grades_to_admin"}
      [] w = "chain" ->
           {"register_new_student", "report_all_students_and_grades_to_brightspace",
            "get_all_student_names"}
      [] w = "registry" ->
           {"submit_student_grades", "count_number_of_failing_students"}
      [] w = "booster" ->
           {"submit_student_grades", "boost_grades"}
      [] w = "boost" ->
           {"get_all_student_names", "get_all_student_grades"}
      [] w = "flood" ->
           {}
      [] w = "shutdown" ->
           {"report_all_students_and_grades_to_brightspace", "drop_handle"}
      [] w = "burst" ->
           {"get_all_student_grades"}
      [] w = "relay" ->
           {"get_all_student_grades"}
      [] w = "faults" ->
           {"count_number_of_failing_students"}

Workloads == {"roster", "aggregator", "chain", "registry", "booster", "boost", "flood",
              "shutdown", "burst", "relay", "faults"}

\* The workloads run with faults injected.
FaultWorkloads == {"shutdown", "burst", "relay", "faults"}

\* The arguments the callers pass.  Each workload draws an argument from
\* several values where the values matter to what it exercises: the names in
\* the roster, the malformed name lists at Brightspace, the grade lists at
\* Admin and Booster.
Light == workload \in {"flood", "burst", "relay", "faults"}
Names == IF workload = "roster" THEN {Ada, Cher} ELSE {Ada}
GradeValues == IF Light THEN {599} ELSE {600}
NameLists ==
    IF workload = "aggregator" THEN {<<Ada>>, <<Ada, Cher>>, <<NonAscii>>}
    ELSE {<<Ada>>, <<Ada, Cher>>}
GradeLists ==
    IF workload = "registry" THEN {<<599>>, <<600, 599>>, <<599, 600, 601>>}
    ELSE IF workload \in {"booster", "boost"} THEN {<<599>>, <<600, 599>>}
    ELSE {<<599>>}

Init ==
    /\ queue = [a \in Actors |-> <<>>]
    /\ alive = [a \in Actors |-> TRUE]
    /\ held = [a \in Actors |-> TRUE]
    /\ pc = [a \in Actors |-> "idle"]
    /\ cur = [a \in Actors |-> NoMsg]
    /\ john = [underlings |-> <<>>, underling_grades |-> <<>>, brightspace |-> FALSE]
    /\ brightspace = [underlings |-> <<>>, underling_grades |-> <<>>, admin |-> FALSE]
    /\ admin = [underlings |-> <<>>, underling_grades |-> <<>>]
    /\ booster = [admin |-> FALSE, grades |-> <<>>, newGrades |-> <<>>]
    /\ caller = [c \in Callers |->
                   [pc |-> "idle", op |-> "none", to |-> "none", msg |-> NoMsg,
                    ret |-> [op |-> "none", val |-> Unit, err |-> FALSE]]]
    /\ reply = [t \in Tasks |-> NoChannel]
    /\ calls = 0
    /\ workload \in Workloads
    /\ script = Script(workload)
    /\ snapshot = [c \in Callers |-> NoSnapshot]

\* --------------------------------------------------------------- channels
\* The messages that carry a oneshot sender (reply_to).
IsRequest(tag) ==
    tag \in {"CountNumberFailingStudents", "GetAllStudentGrades", "GetAllStudentNames",
             "SendAllToAdmin", "SendAllToBrightspace"}

\* (mutant) an unbounded channel: a send never waits
CanSend_unbounded(a) == TRUE

\* (mutant) the channel keeps one slot less than its capacity
CanSend_one_slot_less(a) == ~alive[a] \/ Len(queue[a]) + 1 < Capacity

\* mpsc::Sender::send(msg).await completes when the channel has a free slot
\* (Ok) or when the receiver is gone (Err, the message is dropped).
CanSend(a) == ~alive[a] \/ Len(queue[a]) < Capacity

\* (mutant) the message goes to the head of the queue
QueueAfterSend_at_head(a, m) == IF alive[a] THEN [queue EXCEPT ![a] = <<m>> \o @] ELSE queue

QueueAfterSend(a, m) == IF alive[a] THEN [queue EXCEPT ![a] = Append(@, m)] ELSE queue

\* (mutant) `let _res = self.sender.send(msg).await;`: the SendError keeps the
\* message, and the oneshot sender in it, alive across rx.await
ReplyAfterSend_error_kept(t, a) == [reply EXCEPT ![t] = Pending]

\* The oneshot of a request sent by task t to a: it waits in a's queue, or its
\* sender was dropped with the message the send gave back.
ReplyAfterSend(t, a) == [reply EXCEPT ![t] = IF alive[a] THEN Pending ELSE Closed]

\* Dropping a's Receiver drops the messages queued in it and, with them, their
\* oneshot senders: the awaiting receivers resolve to Err.
ReplyAfterDrop(a) ==
    [t \in Tasks |->
        IF \E i \in 1..Len(queue[a]) : queue[a][i].src = t /\ IsRequest(queue[a][i].tag)
        THEN Closed ELSE reply[t]]

\* Some Sender of a's channel exists: a handle outside the actors, a handle in
\* a live peer's field, or a handle travelling in a message to a live peer.
Carries(m, a) ==
    \/ a = "Brightspace" /\ m.tag = "SetBrightspace"
    \/ a = "Admin" /\ m.tag = "SetAdmin"

InQueue(b, a) == alive[b] /\ \E i \in 1..Len(queue[b]) : Carries(queue[b][i], a)

SenderExists(a) ==
    \/ held[a]
    \/ \E c \in Callers : caller[c].pc = "sending" /\ Carries(caller[c].msg, a)
    \/ a = "Brightspace" /\ alive["John"] /\ john.brightspace
    \/ a = "Brightspace" /\ InQueue("John", a)
    \/ a = "Admin" /\ alive["Brightspace"] /\ brightspace.admin
    \/ a = "Admin" /\ alive["Booster"] /\ booster.admin
    \/ a = "Admin" /\ (InQueue("Brightspace", a) \/ InQueue("Booster", a))

\* `while let Some(msg) = actor.receiver.recv().await`: the backend, back in
\* its loop, takes the oldest message.
\* (mutant) the loop takes the next message although a handler is suspended
Receivable_while_suspended(a, tag) ==
    /\ alive[a]
    /\ queue[a] /= <<>>
    /\ Head(queue[a]).tag = tag

Receivable(a, tag) ==
    /\ alive[a]
    /\ pc[a] = "idle"
    /\ queue[a] /= <<>>
    /\ Head(queue[a]).tag = tag

Recv(a, tag) ==
    /\ Receivable(a, tag)
    /\ queue' = [queue EXCEPT ![a] = Tail(@)]

\* (mutant) the handler keeps reply_to and never sends on it
reply_to_send_forgotten(t, value) == reply

\* `let _ = reply_to.send(value)`
reply_to_send(t, value) == [reply EXCEPT ![t] = Sent(value)]

\* A panic unwinds the backend task: the actor is dropped, and with it its
\* Receiver and every message still queued.
TaskPanics(a) ==
    /\ alive' = [alive EXCEPT ![a] = FALSE]
    /\ queue' = [queue EXCEPT ![a] = <<>>]
    /\ reply' = ReplyAfterDrop(a)

\* recv() yields None once every Sender is dropped and the queue is drained:
\* the loop ends and the actor, with its fields, is dropped.
RecvNone(a) ==
    /\ alive[a]
    /\ pc[a] = "idle"
    /\ queue[a] = <<>>
    /\ ~SenderExists(a)
    /\ alive' = [alive EXCEPT ![a] = FALSE]
    /\ UNCHANGED <<queue, held, pc, cur, john, brightspace, admin, booster,
                   caller, reply, calls, script, workload, snapshot>>

\* ------------------------------------------------------- handle methods
FireAndForget ==
    {"register_new_student", "assign_grade_to_student", "set_brightspace",
     "enter_students_into_brightspace", "enter_student_grades_into_brightspace",
     "generate_and_append_student_career_id", "brightspace_set_admin",
     "submit_student_names", "submit_student_grades", "boost_grades",
     "booster_set_admin"}

RequestReply ==
    {"count_number_of_failing_students", "get_all_student_names",
     "get_all_student_grades", "report_all_students_and_grades_to_admin",
     "report_all_students_and_grades_to_brightspace"}

Idle(ret) == [pc |-> "idle", op |-> "none", to |-> "none", msg |-> NoMsg, ret |-> ret]

\* `let _ = self.sender.send(msg).await;` and the rest of the method: a
\* fire-and-forget method returns, a request/reply method goes on to rx.await.
\* With no free slot the method stays suspended in the send.
send_await(c, op, a, m) ==
    IF CanSend(a)
    THEN /\ queue' = QueueAfterSend(a, m)
         /\ IF IsRequest(m.tag)
            THEN /\ caller' = [caller EXCEPT ![c] =
                       [pc |-> "awaiting", op |-> op, to |-> a, msg |-> NoMsg, ret |-> @.ret]]
                 /\ reply' = ReplyAfterSend(c, a)
            ELSE /\ caller' = [caller EXCEPT ![c] = Idle([op |-> op, val |-> Unit, err |-> ~alive[a]])]
                 /\ UNCHANGED reply
    ELSE /\ caller' = [caller EXCEPT ![c] =
               [pc |-> "sending", op |-> op, to |-> a, msg |-> m, ret |-> @.ret]]
         /\ UNCHANGED <<queue, reply>>

\* It is c's turn to call op.
Turn(c, op) ==
    IF c = "main"
    THEN /\ script /= <<>>
         /\ Head(script) = op
         /\ script' = Tail(script)
         /\ UNCHANGED calls
    ELSE /\ op \in Menu(workload)
         /\ calls < MaxCalls
         /\ calls' = calls + 1
         /\ UNCHANGED script

\* A caller enters a handle method of actor a.
Call(c, op, a, m) ==
    /\ caller[c].pc = "idle"
    /\ Turn(c, op)
    /\ snapshot' = [snapshot EXCEPT ![c] = NoSnapshot]
    /\ send_await(c, op, a, m)
    /\ UNCHANGED <<alive, held, pc, cur, john, brightspace, admin, booster, workload>>

\* A method suspended in send(msg).await goes on once the send completes.
send_resumes(c) ==
    /\ caller[c].pc = "sending"
    /\ CanSend(caller[c].to)
    /\ send_await(c, caller[c].op, caller[c].to, caller[c].msg)
    /\ UNCHANGED <<alive, held, pc, cur, john, brightspace, admin, booster,
                   calls, script, workload, snapshot>>

\* (mutant) rx.await.unwrap(): Err panics in the caller
rx_await_unwrap(op, r) ==
    IF r.st = "sent" THEN r.val ELSE Value("panic", 0, <<>>, <<>>)

\* What each request/reply method makes of rx.await:
\* unwrap_or(0), unwrap_or_default(), or `let _ =`.
rx_await(op, r) ==
    CASE op = "count_number_of_failing_students" -> IF r.st = "sent" THEN r.val ELSE Usize(0)
      [] op = "get_all_student_names" -> IF r.st = "sent" THEN r.val ELSE VecString(<<>>)
      [] op = "get_all_student_grades" -> IF r.st = "sent" THEN r.val ELSE VecF64(<<>>)
      [] OTHER -> Unit

\* rx.await resolves, with the value sent or with Err, and the method returns.
method_returns(c) ==
    /\ caller[c].pc = "awaiting"
    /\ reply[c].st \in {"sent", "closed"}
    /\ caller' = [caller EXCEPT ![c] =
                     Idle([op |-> caller[c].op, val |-> rx_await(caller[c].op, reply[c]),
                           err |-> reply[c].st = "closed"])]
    /\ reply' = [reply EXCEPT ![c] = NoChannel]
    /\ UNCHANGED <<queue, alive, held, pc, cur, john, brightspace, admin, booster,
                   calls, script, workload, snapshot>>

\* JohnHandle
register_new_student ==
    \E c \in Callers, name \in Names :
        /\ held["John"]
        /\ Call(c, "register_new_student", "John", Msg("AddUnderling", c, c, <<name>>, <<>>))

assign_grade_to_student ==
    \E c \in Callers, name \in Names, grade \in GradeValues :
        /\ held["John"]
        /\ Call(c, "assign_grade_to_student", "John",
             Msg("SetUnderlingGrade", c, c, <<name>>, <<grade>>))

set_brightspace ==
    \E c \in Callers :
        /\ held["John"] /\ held["Brightspace"]
        /\ Call(c, "set_brightspace", "John", Msg("SetBrightspace", c, c, <<>>, <<>>))

report_all_students_and_grades_to_brightspace ==
    \E c \in Callers :
        /\ held["John"]
        /\ Call(c, "report_all_students_and_grades_to_brightspace", "John",
             Msg("SendAllToBrightspace", c, c, <<>>, <<>>))

\* BrightspaceHandle
enter_students_into_brightspace ==
    \E c \in Callers, students \in NameLists :
        /\ held["Brightspace"]
        /\ Call(c, "enter_students_into_brightspace", "Brightspace",
             Msg("ProcessStudentDump", c, c, students, <<>>))

enter_student_grades_into_brightspace ==
    \E c \in Callers, grades \in GradeLists :
        /\ held["Brightspace"]
        /\ Call(c, "enter_student_grades_into_brightspace", "Brightspace",
             Msg("ProcessGradeDump", c, c, <<>>, grades))

generate_and_append_student_career_id ==
    \E c \in Callers :
        /\ held["Brightspace"]
        /\ Call(c, "generate_and_append_student_career_id", "Brightspace",
             Msg("AppendStudentCareerID", c, c, <<>>, <<>>))

brightspace_set_admin ==
    \E c \in Callers :
        /\ held["Brightspace"] /\ held["Admin"]
        /\ Call(c, "brightspace_set_admin", "Brightspace", Msg("SetAdmin", c, c, <<>>, <<>>))

report_all_students_and_grades_to_admin ==
    \E c \in Callers :
        /\ held["Brightspace"]
        /\ Call(c, "report_all_students_and_grades_to_admin", "Brightspace",
             Msg("SendAllToAdmin", c, c, <<>>, <<>>))

\* AdminHandle
submit_student_names ==
    \E c \in Callers, students \in NameLists :
        /\ held["Admin"]
        /\ Call(c, "submit_student_names", "Admin", Msg("ProcessStudentDump", c, c, students, <<>>))

submit_student_grades ==
    \E c \in Callers, grades \in GradeLists :
        /\ held["Admin"]
        /\ Call(c, "submit_student_grades", "Admin", Msg("ProcessGradeDump", c, c, <<>>, grades))

count_number_of_failing_students ==
    \E c \in Callers :
        /\ held["Admin"]
        /\ Call(c, "count_number_of_failing_students", "Admin",
             Msg("CountNumberFailingStudents", c, c, <<>>, <<>>))

get_all_student_names ==
    \E c \in Callers :
        /\ held["Admin"]
        /\ Call(c, "get_all_student_names", "Admin", Msg("GetAllStudentNames", c, c, <<>>, <<>>))

get_all_student_grades ==
    \E c \in Callers :
        /\ held["Admin"]
        /\ Call(c, "get_all_student_grades", "Admin", Msg("GetAllStudentGrades", c, c, <<>>, <<>>))

\* BoosterHandle
boost_grades ==
    \E c \in Callers :
        /\ held["Booster"]
        /\ Call(c, "boost_grades", "Booster", Msg("BoostGrade", c, c, <<>>, <<>>))

booster_set_admin ==
    \E c \in Callers :
        /\ held["Booster"] /\ held["Admin"]
        /\ Call(c, "booster_set_admin", "Booster", Msg("SetAdmin", c, c, <<>>, <<>>))

\* The last handle of actor a outside the actors is dropped (no method of it
\* is running: a method borrows its handle).
drop_handle ==
    \E c \in Callers, a \in Actors :
        /\ held[a]
        /\ \A d \in Callers : caller[d].pc = "idle"
        /\ Turn(c, "drop_handle")
        /\ held' = [held EXCEPT ![a] = FALSE]
        /\ UNCHANGED <<queue, alive, pc, cur, john, brightspace, admin, booster,
                       caller, reply, workload, snapshot>>

\* ------------------------------------------------------------------- John
\* (mutant) AddUnderling pushes the name and no grade
John_AddUnderling_name_only ==
    /\ Recv("John", "AddUnderling")
    /\ LET name == Head(queue["John"]).names[1] IN
       john' = [john EXCEPT !.underlings = Append(@, name)]
    /\ UNCHANGED <<alive, held, pc, cur, brightspace, admin, booster,
                   caller, reply, calls, script, workload, snapshot>>

\* AddUnderling { name }: push(name), push(0.0)
John_AddUnderling ==
    /\ Recv("John", "AddUnderling")
    /\ LET name == Head(queue["John"]).names[1] IN
       john' = [john EXCEPT !.underlings = Append(@, name),
                            !.underling_grades = Append(@, DefaultGrade)]
    /\ UNCHANGED <<alive, held, pc, cur, brightspace, admin, booster,
                   caller, reply, calls, script, workload, snapshot>>

\* (mutant) a name that is not found is added with the grade
John_SetUnderlingGrade_adds_absent ==
    /\ Recv("John", "SetUnderlingGrade")
    /\ LET msg == Head(queue["John"])
           found_index == position(john.underlings, msg.names[1])
       IN  IF found_index.some
           THEN john' = [john EXCEPT !.underling_grades[found_index.v] = msg.grades[1]]
           ELSE john' = [john EXCEPT !.underlings = Append(@, msg.names[1]),
                                     !.underling_grades = Append(@, msg.grades[1])]
    /\ UNCHANGED <<alive, held, pc, cur, brightspace, admin, booster,
                   caller, reply, calls, script, workload, snapshot>>

\* SetUnderlingGrade { name, grade }
John_SetUnderlingGrade ==
    /\ Recv("John", "SetUnderlingGrade")
    /\ LET msg == Head(queue["John"])
           found_index == position(john.underlings, msg.names[1])
       IN  IF found_index.some
           THEN john' = [john EXCEPT !.underling_grades[found_index.v] = msg.grades[1]]
           ELSE john' = john
    /\ UNCHANGED <<alive, held, pc, cur, brightspace, admin, booster,
                   caller, reply, calls, script, workload, snapshot>>

John_SetBrightspace ==
    /\ Recv("John", "SetBrightspace")
    /\ john' = [john EXCEPT !.brightspace = TRUE]
    /\ UNCHANGED <<alive, held, pc, cur, brightspace, admin, booster,
                   caller, reply, calls, script, workload, snapshot>>

\* SendAllToBrightspace up to its first await: with no Brightspace handle the
\* handler only replies.
John_SendAllToBrightspace ==
    /\ Recv("John", "SendAllToBrightspace")
    /\ LET msg == Head(queue["John"]) IN
       /\ snapshot' = [snapshot EXCEPT ![msg.src] =
              [taken |-> TRUE, by |-> "John", peer |-> john.brightspace,
               names |-> john.underlings, grades |-> john.underling_grades]]
       /\ IF john.brightspace
          THEN /\ pc' = [pc EXCEPT !["John"] = "enter_students"]
               /\ cur' = [cur EXCEPT !["John"] = msg]
               /\ UNCHANGED reply
          ELSE /\ reply' = reply_to_send(msg.src, Unit)
               /\ UNCHANGED <<pc, cur>>
    /\ UNCHANGED <<alive, held, john, brightspace, admin, booster,
                   caller, calls, script, workload>>

\* (mutant) the reply is sent after the first of the two sends
John_enter_students_replies_early ==
    /\ pc["John"] = "enter_students"
    /\ CanSend("Brightspace")
    /\ queue' = QueueAfterSend("Brightspace",
                    Msg("ProcessStudentDump", "John", cur["John"].src, john.underlings, <<>>))
    /\ reply' = reply_to_send(cur["John"].src, Unit)
    /\ pc' = [pc EXCEPT !["John"] = "enter_grades"]
    /\ UNCHANGED <<alive, held, cur, john, brightspace, admin, booster,
                   caller, calls, script, workload, snapshot>>

\* bs.enter_students_into_brightspace(self.underlings.clone()).await
John_enter_students ==
    /\ pc["John"] = "enter_students"
    /\ CanSend("Brightspace")
    /\ queue' = QueueAfterSend("Brightspace",
                    Msg("ProcessStudentDump", "John", cur["John"].src, john.underlings, <<>>))
    /\ pc' = [pc EXCEPT !["John"] = "enter_grades"]
    /\ UNCHANGED <<alive, held, cur, john, brightspace, admin, booster,
                   caller, reply, calls, script, workload, snapshot>>

\* bs.enter_student_grades_into_brightspace(..).await, then reply_to.send(())
John_enter_grades ==
    /\ pc["John"] = "enter_grades"
    /\ CanSend("Brightspace")
    /\ queue' = QueueAfterSend("Brightspace",
                    Msg("ProcessGradeDump", "John", cur["John"].src, <<>>, john.underling_grades))
    /\ reply' = reply_to_send(cur["John"].src, Unit)
    /\ pc' = [pc EXCEPT !["John"] = "idle"]
    /\ cur' = [cur EXCEPT !["John"] = NoMsg]
    /\ UNCHANGED <<alive, held, john, brightspace, admin, booster,
                   caller, calls, script, workload, snapshot>>

run_john_actor ==
    \/ John_AddUnderling
    \/ John_SetUnderlingGrade
    \/ John_SetBrightspace
    \/ John_SendAllToBrightspace
    \/ John_enter_students
    \/ John_enter_grades
    \/ RecvNone("John")

\* ------------------------------------------------------------ Brightspace
Brightspace_ProcessStudentDump ==
    /\ Recv("Brightspace", "ProcessStudentDump")
    /\ brightspace' = [brightspace EXCEPT !.underlings = Head(queue["Brightspace"]).names]
    /\ UNCHANGED <<alive, held, pc, cur, john, admin, booster,
                   caller, reply, calls, script, workload, snapshot>>

Brightspace_ProcessGradeDump ==
    /\ Recv("Brightspace", "ProcessGradeDump")
    /\ brightspace' = [brightspace EXCEPT !.underling_grades = Head(queue["Brightspace"]).grades]
    /\ UNCHANGED <<alive, held, pc, cur, john, admin, booster,
                   caller, reply, calls, script, workload, snapshot>>

\* AppendStudentCareerID when every name has a career id
Brightspace_AppendStudentCareerID ==
    /\ Recv("Brightspace", "AppendStudentCareerID")
    /\ LET r == for_each_career_id(brightspace.underlings, 1) IN
       /\ ~r.panicked
       /\ brightspace' = [brightspace EXCEPT !.underlings = r.names]
    /\ UNCHANGED <<alive, held, pc, cur, john, admin, booster,
                   caller, reply, calls, script, workload, snapshot>>

\* AppendStudentCareerID when an unwrap() panics: the names before the
\* offending one are already rewritten when the task unwinds.
Brightspace_AppendStudentCareerID_panic ==
    /\ Receivable("Brightspace", "AppendStudentCareerID")
    /\ LET r == for_each_career_id(brightspace.underlings, 1) IN
       /\ r.panicked
       /\ brightspace' = [brightspace EXCEPT !.underlings = r.names]
    /\ snapshot' = [snapshot EXCEPT ![Head(queue["Brightspace"]).src] =
           [taken |-> TRUE, by |-> "panic", peer |-> brightspace.admin,
            names |-> brightspace.underlings, grades |-> brightspace.underling_grades]]
    /\ TaskPanics("Brightspace")
    /\ UNCHANGED <<held, pc, cur, john, admin, booster, caller, calls, script, workload>>

Brightspace_SetAdmin ==
    /\ Recv("Brightspace", "SetAdmin")
    /\ brightspace' = [brightspace EXCEPT !.admin = TRUE]
    /\ UNCHANGED <<alive, held, pc, cur, john, admin, booster,
                   caller, reply, calls, script, workload, snapshot>>

Brightspace_SendAllToAdmin ==
    /\ Recv("Brightspace", "SendAllToAdmin")
    /\ LET msg == Head(queue["Brightspace"]) IN
       /\ snapshot' = [snapshot EXCEPT ![msg.src] =
              [taken |-> TRUE, by |-> "Brightspace", peer |-> brightspace.admin,
               names |-> brightspace.underlings, grades |-> brightspace.underling_grades]]
       /\ IF brightspace.admin
          THEN /\ pc' = [pc EXCEPT !["Brightspace"] = "submit_names"]
               /\ cur' = [cur EXCEPT !["Brightspace"] = msg]
               /\ UNCHANGED reply
          ELSE /\ reply' = reply_to_send(msg.src, Unit)
               /\ UNCHANGED <<pc, cur>>
    /\ UNCHANGED <<alive, held, john, brightspace, admin, booster,
                   caller, calls, script, workload>>

\* ad.submit_student_names(self.underlings.clone()).await
Brightspace_submit_names ==
    /\ pc["Brightspace"] = "submit_names"
    /\ CanSend("Admin")
    /\ queue' = QueueAfterSend("Admin",
                    Msg("ProcessStudentDump", "Brightspace", cur["Brightspace"].src,
                        brightspace.underlings, <<>>))
    /\ pc' = [pc EXCEPT !["Brightspace"] = "submit_grades"]
    /\ UNCHANGED <<alive, held, cur, john, brightspace, admin, booster,
                   caller, reply, calls, script, workload, snapshot>>

\* ad.submit_student_grades(..).await, then reply_to.send(())
Brightspace_submit_grades ==
    /\ pc["Brightspace"] = "submit_grades"
    /\ CanSend("Admin")
    /\ queue' = QueueAfterSend("Admin",
                    Msg("ProcessGradeDump", "Brightspace", cur["Brightspace"].src,
                        <<>>, brightspace.underling_grades))
    /\ reply' = reply_to_send(cur["Brightspace"].src, Unit)
    /\ pc' = [pc EXCEPT !["Brightspace"] = "idle"]
    /\ cur' = [cur EXCEPT !["Brightspace"] = NoMsg]
    /\ UNCHANGED <<alive, held, john, brightspace, admin, booster,
                   caller, calls, script, workload, snapshot>>

run_brightspace_actor ==
    \/ Brightspace_ProcessStudentDump
    \/ Brightspace_ProcessGradeDump
    \/ Brightspace_AppendStudentCareerID
    \/ Brightspace_AppendStudentCareerID_panic
    \/ Brightspace_SetAdmin
    \/ Brightspace_SendAllToAdmin
    \/ Brightspace_submit_names
    \/ Brightspace_submit_grades
    \/ RecvNone("Brightspace")

\* ------------------------------------------------------------------ Admin
Admin_ProcessStudentDump ==
    /\ Recv("Admin", "ProcessStudentDump")
    /\ admin' = [admin EXCEPT !.underlings = Head(queue["Admin"]).names]
    /\ UNCHANGED <<alive, held, pc, cur, john, brightspace, booster,
                   caller, reply, calls, script, workload, snapshot>>

\* (mutant) the dump is appended to the list Admin holds
Admin_ProcessGradeDump_extends ==
    /\ Recv("Admin", "ProcessGradeDump")
    /\ admin' = [admin EXCEPT !.underling_grades = @ \o Head(queue["Admin"]).grades]
    /\ UNCHANGED <<alive, held, pc, cur, john, brightspace, booster,
                   caller, reply, calls, script, workload, snapshot>>

\* ProcessGradeDump { grades } => self.underling_grades = grades
Admin_ProcessGradeDump ==
    /\ Recv("Admin", "ProcessGradeDump")
    /\ admin' = [admin EXCEPT !.underling_grades = Head(queue["Admin"]).grades]
    /\ UNCHANGED <<alive, held, pc, cur, john, brightspace, booster,
                   caller, reply, calls, script, workload, snapshot>>

Admin_CountNumberFailingStudents ==
    /\ Recv("Admin", "CountNumberFailingStudents")
    /\ reply' = reply_to_send(Head(queue["Admin"]).src, Usize(count_failed(admin.underling_grades)))
    /\ UNCHANGED <<alive, held, pc, cur, john, brightspace, admin, booster,
                   caller, calls, script, workload, snapshot>>

Admin_GetAllStudentNames ==
    /\ Recv("Admin", "GetAllStudentNames")
    /\ reply' = reply_to_send(Head(queue["Admin"]).src, VecString(admin.underlings))
    /\ UNCHANGED <<alive, held, pc, cur, john, brightspace, admin, booster,
                   caller, calls, script, workload, snapshot>>

Admin_GetAllStudentGrades ==
    /\ Recv("Admin", "GetAllStudentGrades")
    /\ reply' = reply_to_send(Head(queue["Admin"]).src, VecF64(admin.underling_grades))
    /\ UNCHANGED <<alive, held, pc, cur, john, brightspace, admin, booster,
                   caller, calls, script, workload, snapshot>>

run_admin_actor ==
    \/ Admin_ProcessStudentDump
    \/ Admin_ProcessGradeDump
    \/ Admin_CountNumberFailingStudents
    \/ Admin_GetAllStudentNames
    \/ Admin_GetAllStudentGrades
    \/ RecvNone("Admin")

\* ---------------------------------------------------------------- Booster
Booster_SetAdmin ==
    /\ Recv("Booster", "SetAdmin")
    /\ booster' = [booster EXCEPT !.admin = TRUE]
    /\ UNCHANGED <<alive, held, pc, cur, john, brightspace, admin,
                   caller, reply, calls, script, workload, snapshot>>

\* (mutant) BoostGrade goes on to the Registry without looking at self.admin
Booster_BoostGrade_ignores_none ==
    /\ Recv("Booster", "BoostGrade")
    /\ pc' = [pc EXCEPT !["Booster"] = "get_grades"]
    /\ cur' = [cur EXCEPT !["Booster"] = Head(queue["Booster"])]
    /\ UNCHANGED <<alive, held, john, brightspace, admin, booster,
                   caller, reply, calls, script, workload, snapshot>>

\* BoostGrade up to its first await: with no Admin handle nothing happens.
Booster_BoostGrade ==
    /\ Recv("Booster", "BoostGrade")
    /\ IF booster.admin
       THEN /\ pc' = [pc EXCEPT !["Booster"] = "get_grades"]
            /\ cur' = [cur EXCEPT !["Booster"] = Head(queue["Booster"])]
       ELSE UNCHANGED <<pc, cur>>
    /\ UNCHANGED <<alive, held, john, brightspace, admin, booster,
                   caller, reply, calls, script, workload, snapshot>>

\* ad.get_all_student_grades(): the send of GetAllStudentGrades, before
\* `grades` (pc get_grades) and before `updatedGrades` (pc get_updated)
Booster_get_all_student_grades ==
    /\ pc["Booster"] \in {"get_grades", "get_updated"}
    /\ CanSend("Admin")
    /\ queue' = QueueAfterSend("Admin",
                    Msg("GetAllStudentGrades", "Booster", cur["Booster"].src, <<>>, <<>>))
    /\ reply' = ReplyAfterSend("Booster", "Admin")
    /\ pc' = [pc EXCEPT !["Booster"] =
                 IF @ = "get_grades" THEN "await_grades" ELSE "await_updated"]
    /\ UNCHANGED <<alive, held, cur, john, brightspace, admin, booster,
                   caller, calls, script, workload, snapshot>>

\* `grades` arrives (rx.await.unwrap_or_default()); newGrades is computed
Booster_grades ==
    /\ pc["Booster"] = "await_grades"
    /\ reply["Booster"].st \in {"sent", "closed"}
    /\ LET grades == rx_await("get_all_student_grades", reply["Booster"]).grades IN
       booster' = [booster EXCEPT !.grades = grades, !.newGrades = boost_loop(grades, 0)]
    /\ reply' = [reply EXCEPT !["Booster"] = NoChannel]
    /\ pc' = [pc EXCEPT !["Booster"] = "submit"]
    /\ UNCHANGED <<queue, alive, held, cur, john, brightspace, admin,
                   caller, calls, script, workload, snapshot>>

\* (mutant) the list read is written back, not newGrades
Booster_submit_student_grades_unboosted ==
    /\ pc["Booster"] = "submit"
    /\ CanSend("Admin")
    /\ queue' = QueueAfterSend("Admin",
                    Msg("ProcessGradeDump", "Booster", cur["Booster"].src, <<>>, booster.grades))
    /\ booster' = [booster EXCEPT !.newGrades = <<>>]
    /\ pc' = [pc EXCEPT !["Booster"] = "get_updated"]
    /\ UNCHANGED <<alive, held, cur, john, brightspace, admin,
                   caller, reply, calls, script, workload, snapshot>>

\* ad.submit_student_grades(newGrades).await
Booster_submit_student_grades ==
    /\ pc["Booster"] = "submit"
    /\ CanSend("Admin")
    /\ queue' = QueueAfterSend("Admin",
                    Msg("ProcessGradeDump", "Booster", cur["Booster"].src, <<>>, booster.newGrades))
    /\ booster' = [booster EXCEPT !.newGrades = <<>>]
    /\ pc' = [pc EXCEPT !["Booster"] = "get_updated"]
    /\ UNCHANGED <<alive, held, cur, john, brightspace, admin,
                   caller, reply, calls, script, workload, snapshot>>

\* `updatedGrades` arrives and is printed; the handler ends and its locals go
Booster_updatedGrades ==
    /\ pc["Booster"] = "await_updated"
    /\ reply["Booster"].st \in {"sent", "closed"}
    /\ reply' = [reply EXCEPT !["Booster"] = NoChannel]
    /\ booster' = [booster EXCEPT !.grades = <<>>]
    /\ pc' = [pc EXCEPT !["Booster"] = "idle"]
    /\ cur' = [cur EXCEPT !["Booster"] = NoMsg]
    /\ UNCHANGED <<queue, alive, held, john, brightspace, admin,
                   caller, calls, script, workload, snapshot>>

run_booster_actor ==
    \/ Booster_SetAdmin
    \/ Booster_BoostGrade
    \/ Booster_get_all_student_grades
    \/ Booster_grades
    \/ Booster_submit_student_grades
    \/ Booster_updatedGrades
    \/ RecvNone("Booster")

\* ------------------------------------------------------------ specification
CallerStep ==
    \/ register_new_student
    \/ assign_grade_to_student
    \/ set_brightspace
    \/ report_all_students_and_grades_to_brightspace
    \/ enter_students_into_brightspace
    \/ enter_student_grades_into_brightspace
    \/ generate_and_append_student_career_id
    \/ brightspace_set_admin
    \/ report_all_students_and_grades_to_admin
    \/ submit_student_names
    \/ submit_student_grades
    \/ count_number_of_failing_students
    \/ get_all_student_names
    \/ get_all_student_grades
    \/ boost_grades
    \/ booster_set_admin
    \/ drop_handle
    \/ \E c \in Callers : send_resumes(c)
    \/ \E c \in Callers : method_returns(c)

ActorStep ==
    \/ run_john_actor
    \/ run_brightspace_actor
    \/ run_admin_actor
    \/ run_booster_actor

Next == CallerStep \/ ActorStep

Spec == Init /\ [][Next]_vars

\* ------------------------------------------------- specification with faults
\* println! panics when stdout cannot be written.  Every handle_message starts
\* with one, so a backend task can die on any message it receives; the actor
\* is dropped with the message in hand and the messages still queued.
println_panics ==
    \E a \in Actors :
        /\ alive[a]
        /\ pc[a] = "idle"
        /\ queue[a] /= <<>>
        /\ TaskPanics(a)
        /\ UNCHANGED <<held, pc, cur, john, brightspace, admin, booster,
                       caller, calls, script, workload, snapshot>>

NextFault == Next \/ println_panics

\* The tokio scheduler polls every task that is ready: a backend whose queue
\* holds a message or whose handler can go on, and a caller whose send or
\* reply is ready.  Nothing obliges a caller to start a call.
Fairness ==
    /\ WF_vars(run_john_actor)
    /\ WF_vars(run_brightspace_actor)
    /\ WF_vars(run_admin_actor)
    /\ WF_vars(run_booster_actor)
    /\ \A c \in Callers : WF_vars(send_resumes(c))
    /\ \A c \in Callers : WF_vars(method_returns(c))

InitFault == Init /\ workload \in FaultWorkloads

FaultSpec == InitFault /\ [][NextFault]_vars /\ Fairness

\* ------------------------------------------------------------------ claims
\* Caller c has observed the completion of method op: the method has returned
\* and c has not entered another one since the forwarder handled its request.
Completed(c, op, forwarder) ==
    /\ caller[c].pc = "idle"
    /\ caller[c].ret.op = op
    /\ snapshot[c].taken
    /\ snapshot[c].by = forwarder
    /\ snapshot[c].peer

\* The messages of task `from`, sent on behalf of caller c, that actor a has
\* not handled yet.
Unhandled(a, from, c) ==
    {i \in 1..Len(queue[a]) : queue[a][i].src = from /\ queue[a][i].cause = c}

\* C1: with the Admin handle set, whenever the caller of
\* report_all_students_and_grades_to_admin has observed completion, Admin has
\* already handled both bulk overwrites Brightspace sent for that call.
C1_AdminHandledBeforeCompletion ==
    \A c \in Callers :
        Completed(c, "report_all_students_and_grades_to_admin", "Brightspace")
            => Unhandled("Admin", "Brightspace", c) = {}

\* C2: with John, Brightspace and Admin wired, whenever the caller of
\* report_all_students_and_grades_to_brightspace has observed completion,
\* Admin already holds the name and grade lists John forwarded, so that a read
\* of Admin returns them.
C2_RegistryHoldsRosterAfterCompletion ==
    \A c \in Callers :
        (/\ Completed(c, "report_all_students_and_grades_to_brightspace", "John")
         /\ alive["Brightspace"]
         /\ brightspace.admin)
            => /\ admin.underlings = snapshot[c].names
               /\ admin.underling_grades = snapshot[c].grades

\* C3: in every actor, a message leaves the queue only from its head and only
\* while no handler of that actor is in progress (running or suspended on a
\* peer); until then the queue only grows at its tail and the message being
\* handled stays the same.
C3_Step(a) ==
    IF Len(queue'[a]) < Len(queue[a])
    THEN /\ pc[a] = "idle"
         /\ alive'[a] => queue'[a] = Tail(queue[a])
         /\ pc'[a] /= "idle" => cur'[a] = Head(queue[a])
    ELSE /\ SubSeq(queue'[a], 1, Len(queue[a])) = queue[a]
         /\ (pc[a] /= "idle" /\ pc'[a] /= "idle") => cur'[a] = cur[a]
         /\ pc[a] = "idle" => pc'[a] = "idle"

C3_OneAtATimeInArrivalOrder == [][\A a \in Actors : C3_Step(a)]_vars

\* A handler is suspended on a peer while later messages wait in its queue.
C3_Witness ==
    \E a \in Actors : pc[a] /= "idle" /\ Len(queue[a]) >= 2

\* C4: under fair scheduling every call of a request/reply method returns,
\* whether the backend is alive, dies before or while the request is queued, or
\* was already dead when the request was sent.
C4_RequestReplyReturns ==
    \A c \in Callers :
        (caller[c].pc /= "idle" /\ caller[c].op \in RequestReply) ~> (caller[c].pc = "idle")

\* A request/reply call is about to return a fallback: its backend died with
\* the request queued, or was dead when the request was sent.
C4_Witness ==
    \E c \in Callers :
        /\ caller[c].pc = "awaiting"
        /\ reply[c].st = "closed"
        /\ ~alive[caller[c].to]

\* C7: a method whose send or whose reply await resolved to Err returns the
\* safe default of its result type: 0 for the count, the empty list for the
\* two reads, unit for the two report_all_* and the fire-and-forget methods.
SafeDefault(op) ==
    CASE op = "count_number_of_failing_students" -> Usize(0)
      [] op = "get_all_student_names" -> VecString(<<>>)
      [] op = "get_all_student_grades" -> VecF64(<<>>)
      [] OTHER -> Unit

C7_DeliveryFailureGivesDefault ==
    \A c \in Callers :
        caller[c].ret.err => caller[c].ret.val = SafeDefault(caller[c].ret.op)

\* The count was asked of a dead Admin and came back 0.
C7_Witness ==
    \E c \in Callers :
        /\ caller[c].pc = "idle"
        /\ caller[c].ret.err
        /\ caller[c].ret.op = "count_number_of_failing_students"
        /\ caller[c].ret.val.count = 0

\* C5: a backend loop has stopped only if every sender of its channel is
\* dropped and its queue is drained; no outcome of a handler stops it.
C5_LoopStopsOnlyWhenClosed ==
    \A a \in Actors : ~alive[a] => (~SenderExists(a) /\ queue[a] = <<>>)

\* C6: when AppendStudentCareerID meets a name without an interior space, the
\* caller of generate_and_append_student_career_id gets a failure result for
\* that call, and Brightspace's name list is left as it was (not rewritten up
\* to the malformed name).
C6_MalformedNameIsReported ==
    \A c \in Callers :
        (snapshot[c].taken /\ snapshot[c].by = "panic")
            => /\ caller[c].ret.op = "generate_and_append_student_career_id"
               /\ caller[c].ret.val.kind = "failure"
               /\ brightspace.underlings = snapshot[c].names

\* C8: the list Booster writes back has the length of the list it read and
\* holds 100.0 everywhere, and when Admin handles that write the list becomes
\* Admin's grade list whatever was written to Admin since the read.
BoostedCopy(grades, newGrades) ==
    /\ Len(newGrades) = Len(grades)
    /\ \A i \in 1..Len(newGrades) : newGrades[i] = BoostedGrade

C8_Step ==
    /\ (pc["Booster"] = "await_grades" /\ pc'["Booster"] = "submit")
           => BoostedCopy(booster'.grades, booster'.newGrades)
    /\ (pc["Booster"] = "submit" /\ pc'["Booster"] = "get_updated" /\ alive["Admin"])
           => /\ Len(queue'["Admin"]) = Len(queue["Admin"]) + 1
              /\ queue'["Admin"][Len(queue'["Admin"])].grades = booster.newGrades
              /\ BoostedCopy(booster.grades, booster.newGrades)
    /\ (/\ Len(queue'["Admin"]) < Len(queue["Admin"])
        /\ alive'["Admin"]
        /\ Head(queue["Admin"]).tag = "ProcessGradeDump"
        /\ Head(queue["Admin"]).src = "Booster")
           => /\ admin'.underling_grades = Head(queue["Admin"]).grades
              /\ BoostedCopy(booster.grades, admin'.underling_grades)
              /\ admin'.underlings = admin.underlings

C8_BoosterWriteWins == [][C8_Step]_vars

\* A reader has seen the list W = [60.0, 59.9] another caller submitted, and
\* Admin now holds the one-entry list [100.0] of a Booster that had read
\* before W was handled.
C8_Witness ==
    /\ workload = "booster"
    /\ admin.underling_grades = <<BoostedGrade>>
    /\ \E c \in Callers :
          /\ caller[c].ret.op = "get_all_student_grades"
          /\ caller[c].ret.val.grades = <<600, 599>>

\* C9: whenever a caller or a handler is suspended (in a send or on a reply),
\* some backend can take a step or some suspended caller can go on.
Suspended ==
    \/ \E c \in Callers : caller[c].pc /= "idle"
    \/ \E a \in Actors : alive[a] /\ pc[a] /= "idle"

C9_NoDeadlock ==
    Suspended =>
        ENABLED (ActorStep \/ \E c \in Callers : (send_resumes(c) \/ method_returns(c)))

\* Booster's handler and a caller are both suspended on Admin's full queue.
C9_Witness ==
    /\ pc["Booster"] \in {"get_grades", "submit", "get_updated"}
    /\ Len(queue["Admin"]) = Capacity
    /\ \E c \in Callers : caller[c].pc = "sending" /\ caller[c].to = "Admin"

\* The actor behind the handle of each fire-and-forget method.
TargetOf(op) ==
    CASE op \in {"register_new_student", "assign_grade_to_student", "set_brightspace"} -> "John"
      [] op \in {"enter_students_into_brightspace", "enter_student_grades_into_brightspace",
                 "generate_and_append_student_career_id", "brightspace_set_admin"}
            -> "Brightspace"
      [] op \in {"submit_student_names", "submit_student_grades"} -> "Admin"
      [] op \in {"boost_grades", "booster_set_admin"} -> "Booster"

\* Caller c enters a handle method in this step, and which one.
Enters(c) ==
    /\ caller[c].pc = "idle"
    /\ held' = held
    /\ IF c = "main" THEN script' /= script ELSE calls' /= calls

Entered(c) == IF caller'[c].pc = "idle" THEN caller'[c].ret.op ELSE caller'[c].op

\* C10 as claimed: a fire-and-forget method never has to wait for its backend
\* to handle a message, whatever the state of the queue.
C10_NeverWaitsForBackend ==
    \A c \in Callers :
        ~(/\ caller[c].pc = "sending"
          /\ caller[c].op \in FireAndForget
          /\ alive[caller[c].to]
          /\ Len(queue[caller[c].to]) = Capacity)

\* C10 as amended: a fire-and-forget method returns in the step it is called,
\* its message left unhandled at the tail of the queue, unless the queue of a
\* live backend then holds Capacity messages; in that case only it is
\* suspended, and it goes on when the queue has a free slot or the backend is
\* gone.  It never awaits a reply.
C10_Step(c) ==
    /\ (Enters(c) /\ Entered(c) \in FireAndForget) =>
          LET a == TargetOf(Entered(c)) IN
          IF alive[a] /\ Len(queue[a]) = Capacity
          THEN caller'[c].pc = "sending" /\ queue' = queue
          ELSE /\ caller'[c].pc = "idle"
               /\ alive[a] => /\ Len(queue'[a]) = Len(queue[a]) + 1
                              /\ queue'[a][Len(queue'[a])].src = c
    /\ (caller[c].pc = "sending" /\ caller'[c].pc /= "sending") =>
          (~alive[caller[c].to] \/ Len(queue[caller[c].to]) < Capacity)
    /\ caller'[c].pc = "awaiting" => caller'[c].op \in RequestReply

C10_ReturnsUnlessQueueFull == [][\A c \in Callers : C10_Step(c)]_vars

\* A fire-and-forget call has returned although the queue it filled to the
\* brim holds its message and the backend has handled none of them.
C10_Witness ==
    \E c \in Callers :
        /\ caller[c].pc = "idle"
        /\ caller[c].ret.op = "submit_student_grades"
        /\ Len(queue["Admin"]) = Capacity
        /\ \A i \in 1..Capacity : queue["Admin"][i].src = c

\* Actor a, back in its loop, takes a message with this tag from the head of
\* its queue in this step.
HandledNow(a, tag) ==
    /\ alive[a]
    /\ pc[a] = "idle"
    /\ queue[a] /= <<>>
    /\ Head(queue[a]).tag = tag
    /\ Len(queue'[a]) < Len(queue[a])

\* C11: a forward operation handled while the peer handle is still None is
\* over in that one step: the reply (where the message has one) is sent, no
\* queue of another actor receives a message, and neither the forwarding actor
\* nor the would-be target changes.
C11_Step ==
    /\ (HandledNow("John", "SendAllToBrightspace") /\ ~john.brightspace) =>
          /\ reply'[Head(queue["John"]).src] = Sent(Unit)
          /\ pc'["John"] = "idle"
          /\ \A b \in Actors \ {"John"} : queue'[b] = queue[b]
          /\ john' = john
          /\ brightspace' = brightspace
    /\ (HandledNow("Brightspace", "SendAllToAdmin") /\ ~brightspace.admin) =>
          /\ reply'[Head(queue["Brightspace"]).src] = Sent(Unit)
          /\ pc'["Brightspace"] = "idle"
          /\ \A b \in Actors \ {"Brightspace"} : queue'[b] = queue[b]
          /\ brightspace' = brightspace
          /\ admin' = admin
    /\ (HandledNow("Booster", "BoostGrade") /\ ~booster.admin) =>
          /\ pc'["Booster"] = "idle"
          /\ \A b \in Actors \ {"Booster"} : queue'[b] = queue[b]
          /\ booster' = booster
          /\ admin' = admin
          /\ reply' = reply

C11_UnsetPeerIsNoOp == [][C11_Step]_vars

\* A caller's report has returned from a John that held a student but no
\* Brightspace handle, and Brightspace has received nothing.
C11_Witness ==
    \E c \in Callers :
        /\ caller[c].pc = "idle"
        /\ caller[c].ret.op = "report_all_students_and_grades_to_brightspace"
        /\ ~caller[c].ret.err
        /\ snapshot[c].taken
        /\ snapshot[c].by = "John"
        /\ ~snapshot[c].peer
        /\ snapshot[c].names /= <<>>
        /\ ~john.brightspace
        /\ queue["Brightspace"] = <<>>
        /\ brightspace.underlings = <<>>

\* C12: John's two lists have the same length in every state, and handling
\* AddUnderling{name} puts name at the end of the name list and 0.0 at the same
\* index of the grade list, leaving the earlier entries, the Brightspace
\* reference, the other actors, every queue but John's and every reply
\* channel as they were.
C12_Aligned == Len(john.underlings) = Len(john.underling_grades)

C12_Step ==
    HandledNow("John", "AddUnderling") =>
        LET name == Head(queue["John"]).names[1]
            last == Len(john.underlings) + 1
        IN  /\ john'.underlings = Append(john.underlings, name)
            /\ john'.underling_grades = Append(john.underling_grades, DefaultGrade)
            /\ john'.underlings[last] = name
            /\ john'.underling_grades[last] = DefaultGrade
            /\ john'.brightspace = john.brightspace
            /\ pc'["John"] = "idle"
            /\ \A b \in Actors \ {"John"} : queue'[b] = queue[b]
            /\ UNCHANGED <<brightspace, admin, booster, reply, alive>>

C12_RosterAligned == []C12_Aligned /\ [][C12_Step]_vars

\* A student was registered after an earlier one had been graded: the new
\* entry sits at index 2 of both lists with grade 0.0.
C12_Witness ==
    /\ john.underlings = <<Ada, Cher>>
    /\ john.underling_grades = <<600, DefaultGrade>>

\* The dumps of a writer other than Booster that are on their way to Admin.
Dumps == {"ProcessStudentDump", "ProcessGradeDump"}
ForeignDumps ==
    {i \in 1..Len(queue["Admin"]) :
        queue["Admin"][i].tag \in Dumps /\ queue["Admin"][i].src /= "Booster"}

\* Booster is the only writer left: in the "boost" workload the caller has
\* sent its two dumps and goes on to boost twice and to read, and Admin has
\* handled both dumps.
SoleWriter ==
    /\ workload = "boost"
    /\ Len(script) <= 4
    /\ \A c \in Callers : caller[c].pc = "sending" => caller[c].msg.tag \notin Dumps
    /\ ForeignDumps = {}

\* C13: with the Admin handle set and Booster the only writer left, Admin's
\* name list never changes and its grade list changes only when Admin handles
\* Booster's write, to a list of the same length that holds 100.0 everywhere;
\* when a BoostGrade handler ends, Admin's grade list is that list, of the
\* length of the list the handler read, and it is what the handler read back;
\* if the list read held 100.0 everywhere already (a second BoostGrade), Admin's
\* list is the list read: the state after the first.
C13_Step ==
    SoleWriter =>
        /\ SoleWriter'
        /\ admin'.underlings = admin.underlings
        /\ admin'.underling_grades /= admin.underling_grades =>
              /\ HandledNow("Admin", "ProcessGradeDump")
              /\ Head(queue["Admin"]).src = "Booster"
              /\ BoostedCopy(admin.underling_grades, admin'.underling_grades)
        /\ (pc["Booster"] = "await_updated" /\ pc'["Booster"] = "idle" /\ alive["Admin"]) =>
              /\ booster.admin
              /\ BoostedCopy(booster.grades, admin.underling_grades)
              /\ reply["Booster"] = Sent(VecF64(admin.underling_grades))
              /\ (\A i \in 1..Len(booster.grades) : booster.grades[i] = BoostedGrade)
                     => admin.underling_grades = booster.grades

C13_BoostAllIsIdempotent == [][C13_Step]_vars

\* Both BoostGrade messages are handled: Admin holds [100.0, 100.0] for the
\* two grades submitted, the two names are still there, and the caller's read
\* returned the boosted list.
C13_Witness ==
    /\ workload = "boost"
    /\ script = <<>>
    /\ queue["Booster"] = <<>>
    /\ pc["Booster"] = "idle"
    /\ booster.admin
    /\ admin.underlings = <<Ada, Cher>>
    /\ admin.underling_grades = <<BoostedGrade, BoostedGrade>>
    /\ caller["main"].pc = "idle"
    /\ caller["main"].ret.op = "get_all_student_grades"
    /\ caller["main"].ret.val = VecF64(<<BoostedGrade, BoostedGrade>>)

\* The caller "main" of the "registry" workload is the only caller so far: it
\* submits names, submits grades and then reads, on the one AdminHandle.
OnlyCaller == workload = "registry" /\ calls = 0

\* Caller c returns from method op in this step.
Returns(c, op) ==
    /\ caller[c].pc = "awaiting"
    /\ caller[c].op = op
    /\ caller'[c].pc = "idle"

\* C14: Admin handles a dump by replacing the list of that kind with the
\* list carried (nothing of the old list is kept, the other list is left
\* alone) and a read by replying its list and changing nothing; and for a
\* caller alone on the handle that has submitted names and grades, every read
\* returns the list Admin holds, which is a list that was submitted and not
\* the initial empty one, and once Admin has handled the two dumps its state
\* no longer changes.
C14_Step ==
    /\ HandledNow("Admin", "ProcessStudentDump") =>
          /\ admin'.underlings = Head(queue["Admin"]).names
          /\ admin'.underling_grades = admin.underling_grades
    /\ HandledNow("Admin", "ProcessGradeDump") =>
          /\ admin'.underling_grades = Head(queue["Admin"]).grades
          /\ admin'.underlings = admin.underlings
    /\ HandledNow("Admin", "GetAllStudentNames") =>
          /\ reply'[Head(queue["Admin"]).src] = Sent(VecString(admin.underlings))
          /\ admin' = admin
    /\ HandledNow("Admin", "GetAllStudentGrades") =>
          /\ reply'[Head(queue["Admin"]).src] = Sent(VecF64(admin.underling_grades))
          /\ admin' = admin
    /\ (OnlyCaller /\ Returns("main", "get_all_student_names")) =>
          /\ caller'["main"].ret.val = VecString(admin.underlings)
          /\ admin.underlings \in NameLists
    /\ (OnlyCaller /\ Returns("main", "get_all_student_grades")) =>
          /\ caller'["main"].ret.val = VecF64(admin.underling_grades)
          /\ admin.underling_grades \in GradeLists
    /\ (OnlyCaller /\ Len(script) <= 4 /\ ForeignDumps = {}) => admin' = admin

C14_RegistryRoundTrip == [][C14_Step]_vars

\* The caller, alone on the handle, has read the names a second time and got
\* the two names it submitted; Admin holds the two grades it submitted.
C14_Witness ==
    /\ OnlyCaller
    /\ script = <<>>
    /\ caller["main"].pc = "idle"
    /\ caller["main"].ret.op = "get_all_student_names"
    /\ caller["main"].ret.val = VecString(<<Ada, Cher>>)
    /\ admin.underling_grades = <<600, 599>>

\* The indices at which name occurs in names.
Occurrences(names, name) == {i \in 1..Len(names) : names[i] = name}

\* C15: handling SetUnderlingGrade{name, grade} for a name that John's name
\* list does not hold leaves John's three fields as they were, and John's loop
\* goes on: the task lives and is back at recv.
C15_Step ==
    (/\ HandledNow("John", "SetUnderlingGrade")
     /\ Occurrences(john.underlings, Head(queue["John"]).names[1]) = {}) =>
        /\ john' = john
        /\ alive'["John"]
        /\ pc'["John"] = "idle"
        /\ queue'["John"] = Tail(queue["John"])

C15_AbsentNameIsNoOp == [][C15_Step]_vars

\* The only caller has registered the same student twice and assigned a grade
\* (the grade assigned is 60.0, not 0.0); John has handled all of it and both
\* grades are still 0.0: the grade was for the student John does not hold.
C15_Witness ==
    /\ workload = "roster"
    /\ calls = 0
    /\ Len(script) <= 2
    /\ caller["main"].pc /= "sending"
    /\ queue["John"] = <<>>
    /\ alive["John"]
    /\ pc["John"] = "idle"
    /\ john.underlings = <<Ada, Ada>>
    /\ john.underling_grades = <<DefaultGrade, DefaultGrade>>

\* C19: handling SetUnderlingGrade{name, grade} for a name John holds
\* overwrites the grade at the index of the first occurrence of name; every
\* other grade, those of later occurrences included, the name list, both
\* lengths and the Brightspace reference are as they were.
C19_Step ==
    (/\ HandledNow("John", "SetUnderlingGrade")
     /\ Occurrences(john.underlings, Head(queue["John"]).names[1]) /= {}) =>
        LET msg == Head(queue["John"])
            occ == Occurrences(john.underlings, msg.names[1])
            first == CHOOSE i \in occ : \A j \in occ : i <= j
        IN  /\ john'.underling_grades[first] = msg.grades[1]
            /\ Len(john'.underling_grades) = Len(john.underling_grades)
            /\ \A i \in 1..Len(john.underling_grades) :
                  i /= first => john'.underling_grades[i] = john.underling_grades[i]
            /\ john'.underlings = john.underlings
            /\ john'.brightspace = john.brightspace

C19_FirstOccurrenceOnly == [][C19_Step]_vars

\* The same student is registered twice and was graded once: the first entry
\* holds the grade, the duplicate still 0.0.
C19_Witness ==
    /\ john.underlings = <<Ada, Ada>>
    /\ john.underling_grades = <<600, DefaultGrade>>

\* The backend that task t has sent its request to.
Requested(t) == IF t = "Booster" THEN "Admin" ELSE caller[t].to

\* The request of task t waits in a's queue, or a's handler of it is suspended.
Queued(t, a) == \E i \in 1..Len(queue[a]) : queue[a][i].src = t /\ IsRequest(queue[a][i].tag)
InHand(t, a) == pc[a] /= "idle" /\ cur[a].src = t /\ IsRequest(cur[a].tag)

\* A request that a backend has taken and is no longer handling has its
\* reply: a reply channel is pending only while the request is queued at a
\* live backend or in the hands of its handler.
C16_RepliedBeforeNext ==
    \A t \in Tasks :
        reply[t].st = "pending" =>
            /\ alive[Requested(t)]
            /\ Queued(t, Requested(t)) \/ InHand(t, Requested(t))

\* The last message of a's queue after this step is the one just sent.
Appended(a, tag, src, cause) ==
    /\ Len(queue'[a]) = Len(queue[a]) + 1
    /\ queue'[a][Len(queue'[a])].tag = tag
    /\ queue'[a][Len(queue'[a])].src = src
    /\ queue'[a][Len(queue'[a])].cause = cause

\* A value is sent on a channel only while it is pending, and a value sent
\* stays until the receiver takes it.  A forwarder sends the reply in the step
\* that ends its handler: with no peer handle at once, else when its second
\* send to the peer completes, the first having completed before.
C16_Step ==
    /\ \A t \in Tasks :
          /\ (reply'[t].st = "sent" /\ reply'[t] /= reply[t]) =>
                /\ reply[t].st = "pending"
                /\ LET a == Requested(t) IN
                   \/ HandledNow(a, Head(queue[a]).tag) /\ Head(queue[a]).src = t
                   \/ InHand(t, a) /\ pc'[a] = "idle"
          /\ reply[t].st = "sent" => reply'[t] \in {reply[t], NoChannel}
    /\ \A a \in {"John", "Brightspace"} :
          LET peer == IF a = "John" THEN "Brightspace" ELSE "Admin"
              first == IF a = "John" THEN "enter_students" ELSE "submit_names"
              second == IF a = "John" THEN "enter_grades" ELSE "submit_grades"
          IN  /\ (pc[a] = "idle" /\ pc'[a] /= "idle") =>
                    /\ pc'[a] = first
                    /\ reply' = reply
              /\ (pc[a] = first /\ pc'[a] /= first) =>
                    /\ pc'[a] = second
                    /\ reply' = reply
                    /\ alive[peer] => Appended(peer, "ProcessStudentDump", a, cur[a].src)
              /\ (pc[a] = second /\ pc'[a] /= second) =>
                    /\ pc'[a] = "idle"
                    /\ reply[cur[a].src].st = "pending"
                    /\ reply'[cur[a].src] = Sent(Unit)
                    /\ alive[peer] => Appended(peer, "ProcessGradeDump", a, cur[a].src)

C16_ReplyDiscipline == []C16_RepliedBeforeNext /\ [][C16_Step]_vars

\* John has replied to its caller and both dumps it sent for that caller are
\* in Brightspace's queue, in the order sent.
C16_Witness ==
    \E c \in Callers :
        /\ reply[c] = Sent(Unit)
        /\ caller[c].op = "report_all_students_and_grades_to_brightspace"
        /\ pc["John"] = "idle"
        /\ \E i, j \in 1..Len(queue["Brightspace"]) :
              /\ i < j
              /\ queue["Brightspace"][i].tag = "ProcessStudentDump"
              /\ queue["Brightspace"][i].src = "John"
              /\ queue["Brightspace"][i].cause = c
              /\ queue["Brightspace"][j].tag = "ProcessGradeDump"
              /\ queue["Brightspace"][j].src = "John"
              /\ queue["Brightspace"][j].cause = c

\* The number of entries of grades below 60.0, counted entry by entry.
RECURSIVE Below60(_)
Below60(grades) ==
    IF grades = <<>> THEN 0
    ELSE (IF Head(grades) < 600 THEN 1 ELSE 0) + Below60(Tail(grades))

\* C17: Admin answers CountNumberFailingStudents with the number of entries
\* of its grade list that are strictly less than 60.0 when it handles the
\* message (1 for [59.9, 60.0, 60.1]) and leaves its lists as they were; the
\* caller's method returns that number.
C17_Step ==
    /\ HandledNow("Admin", "CountNumberFailingStudents") =>
          /\ reply'[Head(queue["Admin"]).src] = Sent(Usize(Below60(admin.underling_grades)))
          /\ admin.underling_grades = <<599, 600, 601>> =>
                reply'[Head(queue["Admin"]).src].val.count = 1
          /\ admin' = admin
    /\ \A c \in Callers :
          (Returns(c, "count_number_of_failing_students") /\ reply[c].st = "sent") =>
              caller'[c].ret.val = reply[c].val

C17_CountsStrictlyBelow60 == [][C17_Step]_vars

\* The count of [59.9, 60.0, 60.1] has come back as 1.
C17_Witness ==
    \E c \in Callers :
        /\ caller[c].pc = "idle"
        /\ caller[c].ret.op = "count_number_of_failing_students"
        /\ ~caller[c].ret.err
        /\ caller[c].ret.val = Usize(1)
        /\ admin.underling_grades = <<599, 600, 601>>

\* In the "chain" workload Admin is written by one forward only: the one
\* Brightspace makes for the caller "main".  That forward was of lists of
\* equal length.
EqualLengthForward ==
    /\ workload = "chain"
    /\ snapshot["main"].taken
    /\ snapshot["main"].by = "Brightspace"
    /\ snapshot["main"].peer
    /\ Len(snapshot["main"].names) = Len(snapshot["main"].grades)

\* C18: when Brightspace forwards lists of equal length to Admin, every
\* state in which Admin is about to answer a read (get_all_student_names or
\* get_all_student_grades, of any caller) has name and grade lists of the
\* same length.
C18_ReaderSeesAlignedRegistry ==
    (/\ EqualLengthForward
     /\ \/ Receivable("Admin", "GetAllStudentNames")
        \/ Receivable("Admin", "GetAllStudentGrades"))
        => Len(admin.underlings) = Len(admin.underling_grades)

\* The caller "main" of the "chain" workload is the only caller so far: it
\* wires Brightspace to Admin and John to Brightspace, registers a student,
\* awaits John's report, awaits Brightspace's report and reads both lists.
OneCallerChain == workload = "chain" /\ calls = 0

\* C20: for a caller alone that has awaited the two reports in turn, the
\* reads of Admin return the name list and the grade list John held when it
\* handled SendAllToBrightspace: John's lists no longer change once John has
\* taken that message, and each read returns John's list.
C20_Step ==
    /\ (OneCallerChain /\ Len(script) <= 3 /\ queue["John"] = <<>>) => john' = john
    /\ (OneCallerChain /\ Returns("main", "get_all_student_names")) =>
          /\ caller'["main"].ret.val = VecString(john.underlings)
          /\ john.underlings /= <<>>
          /\ admin.underlings = john.underlings
    /\ (OneCallerChain /\ Returns("main", "get_all_student_grades")) =>
          /\ caller'["main"].ret.val = VecF64(john.underling_grades)
          /\ john.underling_grades /= <<>>
          /\ admin.underling_grades = john.underling_grades
          /\ admin.underlings = john.underlings

C20_ChainDeliversRoster == [][C20_Step]_vars

\* The caller has read both lists: the student it registered and the grade
\* 0.0 have travelled from John through Brightspace to Admin.
C20_Witness ==
    /\ OneCallerChain
    /\ script = <<>>
    /\ caller["main"].pc = "idle"
    /\ caller["main"].ret.op = "get_all_student_grades"
    /\ caller["main"].ret.val = VecF64(<<DefaultGrade>>)
    /\ john.underlings = <<Ada>>
    /\ admin.underlings = <<Ada>>

\* The actor a handler of a sends to, and the places where it sends.
PeerOf(a) == IF a = "John" THEN "Brightspace" ELSE "Admin"
SendPlaces(a) ==
    CASE a = "John" -> {"enter_students", "enter_grades"}
      [] a = "Brightspace" -> {"submit_names", "submit_grades"}
      [] a = "Booster" -> {"get_grades", "submit", "get_updated"}
      [] OTHER -> {}

\* C21: no queue ever holds more than 8 messages.  A caller or a handler
\* whose send finds the queue of a live backend full stays where it is,
\* message in hand, as long as the queue is full; when it goes on with the
\* backend alive its message is the new tail of the queue.  A queue of a live
\* backend loses a message only at its head.
C21_Bounded == \A a \in Actors : Len(queue[a]) <= Capacity

C21_Step ==
    /\ \A c \in Callers :
          caller[c].pc = "sending" =>
              LET a == caller[c].to IN
              /\ (alive[a] /\ Len(queue[a]) = Capacity) => caller'[c] = caller[c]
              /\ (caller'[c].pc /= "sending" /\ alive[a]) =>
                    queue'[a] = Append(queue[a], caller[c].msg)
    /\ \A a \in Actors :
          pc[a] \in SendPlaces(a) =>
              LET b == PeerOf(a) IN
              /\ (alive[b] /\ Len(queue[b]) = Capacity) => (pc'[a] = pc[a] /\ cur'[a] = cur[a])
              /\ (pc'[a] /= pc[a] /\ alive[b]) =>
                    /\ Len(queue'[b]) = Len(queue[b]) + 1
                    /\ SubSeq(queue'[b], 1, Len(queue[b])) = queue[b]
                    /\ queue'[b][Len(queue'[b])].src = a
    /\ \A a \in Actors :
          alive'[a] => \/ queue'[a] = queue[a]
                       \/ queue[a] /= <<>> /\ queue'[a] = Tail(queue[a])
                       \/ /\ Len(queue'[a]) = Len(queue[a]) + 1
                          /\ SubSeq(queue'[a], 1, Len(queue[a])) = queue[a]

C21_QueueBoundedSenderWaits == []C21_Bounded /\ [][C21_Step]_vars

\* The only caller has called submit_student_grades once more than the queue
\* holds and again: Admin has handled one message, the queue holds the next 8
\* and the caller is suspended with the following one in hand.
C21_Witness ==
    /\ workload = "burst"
    /\ calls = 0
    /\ Len(script) + Capacity + 2 = MaxBurst
    /\ caller["main"].pc = "sending"
    /\ caller["main"].msg.tag = "ProcessGradeDump"
    /\ alive["Admin"]
    /\ Len(queue["Admin"]) = Capacity
    /\ \A i \in 1..Capacity : queue["Admin"][i].src = "main"
    /\ admin.underling_grades = <<599>>

====
